---- MODULE Spec2Model ----
(***************************************************************************)
(* Model of src/src/fastly_realtime/realtime-fastly.py: the interval       *)
(* aggregator (stream_real_time_data) with its notification sink, and the  *)
(* directory cache with the paginated service listing (list_services).     *)
(*                                                                         *)
(* Python values are represented as follows.  A dict is a function, {} is  *)
(* the empty function <<>>.  A list is a sequence.  An optional value is a *)
(* record with the field "none" (None) or the field "some" (a value).      *)
(***************************************************************************)
EXTENDS Integers, Sequences, FiniteSets, TLC

VARIABLES
    (* ---- stream_real_time_data ---- *)
    pc,               \* position of the stream: start, polling, completed, failed, raised
    slack_channel,    \* the slack_channel argument ("" when no sink is configured)
    duration,         \* the duration argument, seconds
    wait_interval,    \* the wait_interval argument, seconds
    now,              \* datetime.utcnow(), seconds
    end_time,         \* local end_time
    total_stats,      \* local total_stats (running total)
    previous_stats,   \* local previous_stats (previous-interval snapshot)
    interval_stats,   \* local interval_stats of the last processed tick
    channel,          \* local channel returned by send_slack_message
    slack_ts,         \* local slack_ts ("" while None)
    polls,            \* number of calls of get_real_time_data
    ticks,            \* number of ticks processed (sample available)
    interval_sum,     \* history: per field, the sum of the interval snapshots of all processed ticks
    last_tick,        \* history: what the last loop iteration saw and did
    sink,             \* history: the calls made to the Slack client
    ref,              \* history: the same stream with every sink delivery succeeding
    (* ---- load_cache / save_cache / list_services ---- *)
    cache_file,       \* content of services_cache.json on disk
    utc_hours,        \* datetime.utcnow(), hours
    call,             \* history: the last call of list_services / load_cache
    (* ---- filter_services_by_environment / get_best_match / main ---- *)
    resolve,          \* history: the last resolution of a service name
    run               \* history: the run of main

streamVars == <<pc, slack_channel, duration, wait_interval, now, end_time, total_stats,
                previous_stats, interval_stats, channel, slack_ts, polls, ticks,
                interval_sum, last_tick, sink, ref>>
dirVars == <<cache_file, utc_hours, call>>
mainVars == <<resolve, run>>
vars == <<streamVars, dirVars, mainVars>>

(***************************************************************************)
(* Bounds of the model.                                                    *)
(***************************************************************************)
\* largest duration argument tried, in seconds (main passes DEFAULT_STREAM_DURATION)
MaxDuration == 3
\* largest wait_interval argument tried, in seconds (main passes DEFAULT_WAIT_INTERVAL)
MaxWait == 2
\* largest time, in seconds, one poll and its processing may take on top of the sleep
MaxLatency == 1
\* largest number of data points in one real-time sample
MaxPoints == 2
\* largest number of non-empty pages of the service listing
MaxPages == 2
\* largest number of services in a directory whose names are resolved
MaxServices == 2
\* hours that pass while the directory is watched
MaxElapsed == 2

(***************************************************************************)
(* Program constants.                                                      *)
(***************************************************************************)
COMMON_FIELDS == {"status_5xx", "requests", "hits", "miss", "all_pass_requests"}
CACHE_EXPIRY_HOURS == 24

\* the hour the directory is first looked at, and the timestamps a cache
\* file found then may carry: older than, exactly, and just younger than
\* CACHE_EXPIRY_HOURS, and new
StartHour == CACHE_EXPIRY_HOURS + 1
Timestamps == {0, 1, 2, StartHour}

None == [none |-> TRUE]
Some(v) == [some |-> v]
IsNone(o) == "none" \in DOMAIN o

\* dict.get(key, 0)
Get(d, key) == IF key \in DOMAIN d THEN d[key] ELSE 0

\* truthiness of a dict or a list
Truthy(d) == DOMAIN d # {}

(***************************************************************************)
(* Inputs: the 'aggregated' counters of a data point, and the samples the  *)
(* real-time endpoint may answer with.  "bandwidth" is a field the         *)
(* aggregator does not track; the last point carries no tracked field.     *)
(***************************************************************************)
DataPoints ==
    { [requests |-> 2, hits |-> 1, miss |-> 1],
      [requests |-> 1, status_5xx |-> 1, bandwidth |-> 7],
      [bandwidth |-> 3] }

Samples == UNION { [1..n -> DataPoints] : n \in 0..MaxPoints }

\* what requests.get(...) of the real-time endpoint does: an HTTP or
\* connection error, or a JSON body {"Data": [...]}
Responses == { [error |-> TRUE] } \cup { [Data |-> s] : s \in Samples }

\* get_real_time_data: real_time_data['Data'], or None on a RequestException
get_real_time_data(response) ==
    IF "error" \in DOMAIN response THEN None ELSE Some(response.Data)

\* `if not stats_data`: None and the empty list alike
Unavailable(stats_data) ==
    IF IsNone(stats_data) THEN TRUE ELSE stats_data.some = <<>>

ZeroStats == [field \in COMMON_FIELDS |-> 0]

\* lines 333-337: interval_stats summed over the data points, field by field
RECURSIVE SumPoints(_, _)
SumPoints(points, field) ==
    IF points = <<>> THEN 0
    ELSE (IF field \in DOMAIN Head(points) THEN Head(points)[field] ELSE 0)
         + SumPoints(Tail(points), field)

\* mutant of IntervalStats: `=` written for `+=` at line 337
IntervalStats_LastPoint(points) ==
    [field \in COMMON_FIELDS |->
       IF points = <<>> THEN 0 ELSE SumPoints(<<points[Len(points)]>>, field)]

IntervalStats(points) == [field \in COMMON_FIELDS |-> SumPoints(points, field)]

\* mutant of AddInterval: `=` written for `+=`
AddInterval_Assign(total, interval) ==
    [field \in COMMON_FIELDS |-> interval[field]]

\* lines 339-340: total_stats[field] += interval_stats[field]
AddInterval(total, interval) ==
    [field \in COMMON_FIELDS |-> total[field] + interval[field]]

\* format_value on a number: "1.2K (1234)" from 1000 on, str(int(value)) below
format_value(value) ==
    IF value >= 1000
    THEN [k_tenths |-> (value + 50) \div 100, int |-> value]
    ELSE [int |-> value]

\* lines 245-249
change_emoji(interval_value, previous_value) ==
    IF interval_value > previous_value THEN "arrow_up"
    ELSE IF interval_value < previous_value THEN "small_red_triangle_down"
    ELSE ""

\* generate_slack_blocks, one section per field of summary; previous is <<>>
\* for previous_interval_summary=None
generate_slack_blocks(summary, interval_summary, previous) ==
    [header |-> "Real-Time Data Summary",
     sections |-> [field \in DOMAIN summary |->
        [value |-> format_value(Get(interval_summary, field)),
         emoji |-> change_emoji(Get(interval_summary, field),
                                IF Truthy(previous) THEN Get(previous, field) ELSE 0)]]]

\* generate_final_slack_blocks_with_intervals
generate_final_slack_blocks_with_intervals(summary, interval_summary) ==
    [header |-> "Final Real-Time Data Summary",
     sections |-> [field \in DOMAIN summary |->
        [value |-> format_value(Get(interval_summary, field))]]]

(***************************************************************************)
(* The notification sink (Slack).  chat_postMessage answers with the       *)
(* channel id and the timestamp of the new message; a channel given by     *)
(* name is answered by its id.                                             *)
(***************************************************************************)
SinkChannels == {"C1", "#ops"}

ChannelId(ch) == IF ch = "#ops" THEN "C1" ELSE ch

NoCall == [kind |-> "none"]

\* what may become of the call the Slack client is asked to make: delivered
\* (TRUE) or refused with a SlackApiError (FALSE); without a sink no call
\* is made
Deliveries(ch) == IF ch = "" THEN {TRUE} ELSE BOOLEAN

\* send_slack_message: (response["channel"], response["ts"]), or None on a
\* SlackApiError
send_slack_message(ch, ok) ==
    IF ok THEN Some([channel |-> ChannelId(ch), ts |-> "ts1"]) ELSE None

\* the record of one call of the Slack client
SinkCall(kind, ch, ts, blocks, ok) ==
    [kind |-> kind, channel |-> ch, ts |-> ts, blocks |-> blocks, delivered |-> ok]

\* lines 357-360, the finally clause: one chat_update with the final blocks
\* when a sink is configured and a message was opened
Teardown(s, ch, ts, total, previous, ok) ==
    IF ch # "" /\ ts # ""
    THEN [s EXCEPT !.finals = @ + 1,
                   !.last = SinkCall("final", ch, ts,
                                generate_final_slack_blocks_with_intervals(total, previous), ok)]
    ELSE s

\* how line 323 leaves the function: `channel, slack_ts = None` raises
\* TypeError ahead of the try statement
StartOutcome(ch, ok) ==
    IF ch # "" /\ IsNone(send_slack_message(ch, ok)) THEN "raised" ELSE "polling"

\* mutant of Rotate: the rotation is left out
Rotate_Never(ch, previous, interval) == previous

\* line 345: previous_stats = interval_stats.copy(), with a sink only
Rotate(ch, previous, interval) ==
    IF ch # "" THEN interval ELSE previous

StreamInit ==
    /\ pc = "start"
    /\ slack_channel \in {""} \cup SinkChannels
    /\ duration \in 1..MaxDuration
    /\ wait_interval \in 1..MaxWait
    /\ now = 0
    /\ end_time = 0
    /\ total_stats = ZeroStats
    /\ previous_stats = ZeroStats
    /\ interval_stats = ZeroStats
    /\ channel = ""
    /\ slack_ts = ""
    /\ polls = 0
    /\ ticks = 0
    /\ interval_sum = ZeroStats
    /\ last_tick = [available |-> TRUE, total_before |-> ZeroStats,
                    previous_before |-> ZeroStats, interval_before |-> ZeroStats]
    /\ sink = [opens |-> 0, updates |-> 0, finals |-> 0, last |-> NoCall]
    /\ ref = [pc |-> "start", polls |-> 0, total_stats |-> ZeroStats]

\* the stream is not running (the directory specification)
StreamIdle ==
    /\ StreamInit
    /\ slack_channel = ""
    /\ duration = 1
    /\ wait_interval = 1

\* lines 315-323: the locals are set up and, with a sink, the first message
\* is posted
Start ==
    /\ pc = "start"
    /\ \E ok \in Deliveries(slack_channel) :
        LET opened == send_slack_message(slack_channel, ok) IN
        /\ pc' = StartOutcome(slack_channel, ok)
        /\ IF slack_channel # ""
           THEN /\ sink' = [sink EXCEPT !.opens = @ + 1,
                                !.last = SinkCall("open", slack_channel, "",
                                            generate_slack_blocks(ZeroStats, <<>>, <<>>), ok)]
                /\ IF IsNone(opened)
                   THEN UNCHANGED <<channel, slack_ts>>
                   ELSE /\ channel' = opened.some.channel
                        /\ slack_ts' = opened.some.ts
           ELSE UNCHANGED <<sink, channel, slack_ts>>
    /\ end_time' = now + duration
    /\ total_stats' = ZeroStats
    /\ previous_stats' = ZeroStats
    /\ ref' = [pc |-> StartOutcome(slack_channel, TRUE), polls |-> 0,
               total_stats |-> ZeroStats]
    /\ UNCHANGED <<slack_channel, duration, wait_interval, now, interval_stats, polls,
                   ticks, interval_sum, last_tick, dirVars, mainVars>>

\* lines 326-345: one iteration of the loop whose poll yields a sample,
\* for the answer of the real-time endpoint
PollDataOn(response) ==
    /\ pc = "polling"
    /\ now < end_time
    /\ \E latency \in 0..MaxLatency, ok \in Deliveries(slack_channel) :
        \E stats_data \in {get_real_time_data(response)} :
        /\ ~Unavailable(stats_data)
        /\ \E interval \in {IntervalStats(stats_data.some)} :
           \E total \in {AddInterval(total_stats, interval)} :
              /\ interval_stats' = interval
              /\ total_stats' = total
              /\ previous_stats' = Rotate(slack_channel, previous_stats, interval)
              /\ interval_sum' = [f \in COMMON_FIELDS |-> interval_sum[f] + interval[f]]
              /\ sink' = IF slack_channel # ""
                         THEN [sink EXCEPT !.updates = @ + 1,
                                  !.last = SinkCall("update", channel, slack_ts,
                                      generate_slack_blocks(total, interval, previous_stats), ok)]
                         ELSE sink
              /\ ref' = [ref EXCEPT !.polls = @ + 1,
                                    !.total_stats = AddInterval(@, interval)]
        /\ now' = now + wait_interval + latency
    /\ polls' = polls + 1
    /\ ticks' = ticks + 1
    /\ last_tick' = [available |-> TRUE, total_before |-> total_stats,
                     previous_before |-> previous_stats,
                     interval_before |-> interval_stats]
    /\ UNCHANGED <<pc, slack_channel, duration, wait_interval, end_time, channel,
                   slack_ts, dirVars, mainVars>>

PollData == \E response \in Responses : PollDataOn(response)

\* lines 326-331 and 357-360: the poll yields nothing, the function returns
\* through the finally clause, for the answer of the real-time endpoint
PollUnavailableOn(response) ==
    /\ pc = "polling"
    /\ now < end_time
    /\ \E latency \in 0..MaxLatency, ok \in Deliveries(slack_channel) :
        /\ Unavailable(get_real_time_data(response))
        /\ now' = now + wait_interval + latency
        /\ sink' = Teardown(sink, slack_channel, slack_ts, total_stats, previous_stats, ok)
    /\ polls' = polls + 1
    /\ pc' = "failed"
    /\ ref' = [ref EXCEPT !.polls = @ + 1, !.pc = "failed"]
    /\ last_tick' = [available |-> FALSE, total_before |-> total_stats,
                     previous_before |-> previous_stats,
                     interval_before |-> interval_stats]
    /\ UNCHANGED <<slack_channel, duration, wait_interval, end_time, total_stats,
                   previous_stats, interval_stats, channel, slack_ts, ticks,
                   interval_sum, dirVars, mainVars>>

\* mutant of PollUnavailable: the return does not pass through a finally clause
PollUnavailable_NoFinally ==
    /\ pc = "polling"
    /\ now < end_time
    /\ \E response \in Responses, latency \in 0..MaxLatency, ok \in Deliveries(slack_channel) :
        /\ Unavailable(get_real_time_data(response))
        /\ now' = now + wait_interval + latency
        /\ sink' = sink
    /\ polls' = polls + 1
    /\ pc' = "failed"
    /\ ref' = [ref EXCEPT !.polls = @ + 1, !.pc = "failed"]
    /\ last_tick' = [available |-> FALSE, total_before |-> total_stats,
                     previous_before |-> previous_stats,
                     interval_before |-> interval_stats]
    /\ UNCHANGED <<slack_channel, duration, wait_interval, end_time, total_stats,
                   previous_stats, interval_stats, channel, slack_ts, ticks,
                   interval_sum, dirVars, mainVars>>

\* mutant of PollUnavailable: `continue` written for `return`
PollUnavailable_KeepPolling ==
    /\ pc = "polling"
    /\ now < end_time
    /\ \E response \in Responses, latency \in 0..MaxLatency, ok \in Deliveries(slack_channel) :
        /\ Unavailable(get_real_time_data(response))
        /\ now' = now + wait_interval + latency
        /\ sink' = sink
    /\ polls' = polls + 1
    /\ pc' = "polling"
    /\ ref' = [ref EXCEPT !.polls = @ + 1]
    /\ last_tick' = [available |-> FALSE, total_before |-> total_stats,
                     previous_before |-> previous_stats,
                     interval_before |-> interval_stats]
    /\ UNCHANGED <<slack_channel, duration, wait_interval, end_time, total_stats,
                   previous_stats, interval_stats, channel, slack_ts, ticks,
                   interval_sum, dirVars, mainVars>>

\* one iteration of the loop whose poll yields nothing
PollUnavailable == \E response \in Responses : PollUnavailableOn(response)

\* lines 326 and 352-360: the time budget is used up, the function ends
\* through the finally clause
LoopExit ==
    /\ pc = "polling"
    /\ ~(now < end_time)
    /\ \E ok \in Deliveries(slack_channel) :
        sink' = Teardown(sink, slack_channel, slack_ts, total_stats, previous_stats, ok)
    /\ pc' = "completed"
    /\ ref' = [ref EXCEPT !.pc = "completed"]
    /\ UNCHANGED <<slack_channel, duration, wait_interval, now, end_time, total_stats,
                   previous_stats, interval_stats, channel, slack_ts, polls, ticks,
                   interval_sum, last_tick, dirVars, mainVars>>

(***************************************************************************)
(* The directory cache and the service listing.                            *)
(*                                                                         *)
(* A service name is the sequence of its characters.  The cache file is    *)
(* one of:  missing;  unparsable (open or json.load raises);               *)
(* bad_timestamp (no 'timestamp' key, or not an ISO date);  no_data (a     *)
(* timestamp, no 'data' key);  entry (a timestamp in hours and the data).  *)
(***************************************************************************)
Raised(e) == [raised |-> e]
IsRaised(o) == "raised" \in DOMAIN o

web == <<"w", "e", "b">>
dev_web == <<"d", "e", "v", ".", "w", "e", "b">>
qa_web == <<"q", "a", "-", "w", "e", "b">>

\* pages the listing endpoint may answer with, each a JSON array of services
Pages ==
    { << [name |-> web, id |-> "id1"], [name |-> dev_web, id |-> "id2"] >>,
      << [name |-> qa_web, id |-> "id3"], [name |-> web, id |-> "id4"] >> }

Listings == UNION { [1..n -> Pages] : n \in 0..MaxPages }

\* all_services[name] = id
Put(d, key, value) ==
    [k \in DOMAIN d \cup {key} |-> IF k = key THEN value ELSE d[k]]

\* lines 87-88
RECURSIVE AddServices(_, _)
AddServices(all_services, services) ==
    IF services = <<>> THEN all_services
    ELSE AddServices(Put(all_services, Head(services).name, Head(services).id),
                     Tail(services))

\* lines 80-91: the loop over the pages, from params["page"] = page on.
\* The request for page failAt raises a RequestException (failAt = 0: none
\* does); a page past the end of the listing is the empty array.  requests
\* and responses are the pages asked for and what the provider answered.
RECURSIVE FetchPages(_, _, _, _, _, _)
FetchPages(listing, failAt, page, all_services, requests, responses) ==
    IF page = failAt
    THEN [all_services |-> all_services, requests |-> Append(requests, page),
          responses |-> Append(responses, [error |-> TRUE])]
    ELSE LET services == IF page <= Len(listing) THEN listing[page] ELSE <<>> IN
         IF services = <<>>
         THEN [all_services |-> all_services, requests |-> Append(requests, page),
               responses |-> Append(responses, [services |-> services])]
         ELSE FetchPages(listing, failAt, page + 1,
                         AddServices(all_services, services),
                         Append(requests, page),
                         Append(responses, [services |-> services]))

\* the directories a fetch can produce
Directories ==
    { FetchPages(l, f, 1, <<>>, <<>>, <<>>).all_services :
         l \in Listings, f \in 0..MaxPages + 1 }

\* line 43
Fresh(hours, cache_timestamp) == hours - cache_timestamp < CACHE_EXPIRY_HOURS

\* lines 39-44, the body of the try statement of load_cache; falling off
\* its end is None
LoadBody(file, hours) ==
    CASE file.kind = "missing" -> None
      [] file.kind = "unparsable" -> Raised("JSONDecodeError")
      [] file.kind = "bad_timestamp" -> Raised("KeyError")
      [] file.kind = "no_data" ->
            IF Fresh(hours, file.timestamp) THEN Raised("KeyError") ELSE None
      [] file.kind = "entry" ->
            IF Fresh(hours, file.timestamp) THEN Some(file.data) ELSE None

\* mutant of load_cache: no try/except around the body
load_cache_Uncaught(file, hours) == LoadBody(file, hours)

\* lines 37-47
load_cache(file, hours) ==
    LET body == LoadBody(file, hours) IN
    IF IsRaised(body) THEN None ELSE body

\* what the file system does to a write: it succeeds, open() fails and the
\* file stays as it is, or the write fails after open() truncated the file
WriteOutcomes == {"ok", "open_fails", "dump_fails"}

\* mutant of save_cache: the data is written without its envelope, so
\* without a timestamp
save_cache_DataOnly(file, data, hours, io) ==
    CASE io = "ok" -> [kind |-> "bad_timestamp"]
      [] io = "open_fails" -> file
      [] io = "dump_fails" -> [kind |-> "unparsable"]

\* lines 49-58
save_cache(file, data, hours, io) ==
    CASE io = "ok" -> [kind |-> "entry", timestamp |-> hours, data |-> data]
      [] io = "open_fails" -> file
      [] io = "dump_fails" -> [kind |-> "unparsable"]

\* line 62: `if cached_services`
CacheHit(cached_services) ==
    IF IsNone(cached_services) THEN FALSE ELSE Truthy(cached_services.some)

\* mutant of list_services: a failed request discards what was fetched and
\* leaves the cache alone
list_services_NoPartial(file, hours, listing, failAt, io) ==
    LET cached_services == load_cache(file, hours) IN
    IF IsRaised(cached_services)
    THEN [raised |-> TRUE, returned |-> <<>>, requests |-> <<>>, responses |-> <<>>,
          saved |-> None, file |-> file]
    ELSE IF CacheHit(cached_services)
    THEN [raised |-> FALSE, returned |-> cached_services.some, requests |-> <<>>,
          responses |-> <<>>, saved |-> None, file |-> file]
    ELSE LET fetched == FetchPages(listing, failAt, 1, <<>>, <<>>, <<>>) IN
         IF "error" \in DOMAIN fetched.responses[Len(fetched.responses)]
         THEN [raised |-> FALSE, returned |-> <<>>,
               requests |-> fetched.requests, responses |-> fetched.responses,
               saved |-> None, file |-> file]
         ELSE [raised |-> FALSE, returned |-> fetched.all_services,
               requests |-> fetched.requests, responses |-> fetched.responses,
               saved |-> Some([data |-> fetched.all_services, io |-> io]),
               file |-> save_cache(file, fetched.all_services, hours, io)]

\* lines 60-94.  saved is the call of save_cache, when one is made.
list_services(file, hours, listing, failAt, io) ==
    LET cached_services == load_cache(file, hours) IN
    IF IsRaised(cached_services)
    THEN [raised |-> TRUE, returned |-> <<>>, requests |-> <<>>, responses |-> <<>>,
          saved |-> None, file |-> file]
    ELSE IF CacheHit(cached_services)
    THEN [raised |-> FALSE, returned |-> cached_services.some, requests |-> <<>>,
          responses |-> <<>>, saved |-> None, file |-> file]
    ELSE LET fetched == FetchPages(listing, failAt, 1, <<>>, <<>>, <<>>) IN
         [raised |-> FALSE, returned |-> fetched.all_services,
          requests |-> fetched.requests, responses |-> fetched.responses,
          saved |-> Some([data |-> fetched.all_services, io |-> io]),
          file |-> save_cache(file, fetched.all_services, hours, io)]

\* the cache files the program may find when it starts
CacheFiles ==
    { [kind |-> k] : k \in {"missing", "unparsable", "bad_timestamp"} }
    \cup { [kind |-> "no_data", timestamp |-> t] : t \in Timestamps }
    \cup { [kind |-> "entry", timestamp |-> t, data |-> d] :
              t \in Timestamps, d \in Directories }

\* no name is resolved and main is not run (the stream and the directory
\* specifications)
MainIdle ==
    /\ resolve = [op |-> "none"]
    /\ run = [outcome |-> "none"]

DirInit ==
    /\ cache_file \in CacheFiles
    /\ utc_hours = StartHour
    /\ call = [op |-> "none"]

\* main, line 370 (and any earlier run of the tool): one call of list_services
ListServices ==
    /\ \E listing \in Listings, io \in WriteOutcomes :
       \E failAt \in 0..Len(listing) + 1 :
       \E r \in {list_services(cache_file, utc_hours, listing, failAt, io)} :
        /\ cache_file' = r.file
        /\ call' = [op |-> "list_services", at |-> utc_hours, raised |-> r.raised,
                    returned |-> r.returned, requests |-> r.requests,
                    responses |-> r.responses, saved |-> r.saved]
    /\ UNCHANGED <<utc_hours, streamVars, mainVars>>

\* one call of load_cache(CACHE_FILE); since is the call before it, kept
\* whole when it was a call of save_cache
LoadCache ==
    /\ call' = [op |-> "load_cache", at |-> utc_hours,
                returned |-> load_cache(cache_file, utc_hours),
                since |-> IF call.op = "save_cache" THEN call ELSE [op |-> call.op]]
    /\ UNCHANGED <<cache_file, utc_hours, streamVars, mainVars>>

\* one call of save_cache(CACHE_FILE, data)
SaveCache ==
    /\ \E data \in Directories, io \in WriteOutcomes :
        /\ cache_file' = save_cache(cache_file, data, utc_hours, io)
        /\ call' = [op |-> "save_cache", at |-> utc_hours, data |-> data, io |-> io]
    /\ UNCHANGED <<utc_hours, streamVars, mainVars>>

\* an hour passes
HourPasses ==
    /\ utc_hours < StartHour + MaxElapsed
    /\ utc_hours' = utc_hours + 1
    /\ UNCHANGED <<cache_file, call, streamVars, mainVars>>

InitDir == StreamIdle /\ DirInit /\ MainIdle

NextDir == ListServices \/ LoadCache \/ SaveCache \/ HourPasses

SpecDir == InitDir /\ [][NextDir]_vars

\* no directory call is made (the other specifications)
DirIdle ==
    /\ cache_file = [kind |-> "missing"]
    /\ utc_hours = StartHour
    /\ call = [op |-> "none"]

(***************************************************************************)
(* Environment filter and name resolver: get_environment,                  *)
(* filter_services_by_environment, get_best_match.  A str is the tuple of  *)
(* its characters; a directory (a dict, which keeps insertion order) is    *)
(* the sequence of its items, each a record of a name and an id.           *)
(***************************************************************************)
production == <<"p", "r", "o", "d", "u", "c", "t", "i", "o", "n">>
dev == <<"d", "e", "v">>
qa == <<"q", "a">>
VALID_ENVIRONMENTS == {production, dev, qa}

\* str.startswith
StartsWith(s, prefix) ==
    /\ Len(prefix) <= Len(s)
    /\ SubSeq(s, 1, Len(prefix)) = prefix

\* str.lower, on the letters the environment inputs are written with
LowerChar(c) ==
    CASE c = "P" -> "p"
      [] c = "D" -> "d"
      [] c = "E" -> "e"
      [] c = "V" -> "v"
      [] c = "Q" -> "q"
      [] c = "A" -> "a"
      [] OTHER -> c

Lower(s) == [i \in 1..Len(s) |-> LowerChar(s[i])]

\* the --environment argument: valid names in several cases, the empty
\* string, and names that are not environments
EnvironmentInputs ==
    { production,
      <<"P", "r", "o", "d", "u", "c", "t", "i", "o", "n">>,
      <<"D", "E", "V">>,
      <<"Q", "a">>,
      <<>>,
      <<"p", "r", "o", "d">>,
      <<"q", "a", " ">> }

\* mutant of get_environment: the name is compared as it was typed
get_environment_CaseSensitive(env_name) ==
    IF env_name \in VALID_ENVIRONMENTS THEN Some(env_name) ELSE None

\* lines 101-107
get_environment(env_name) ==
    IF env_name = <<>>
      THEN None
      ELSE IF Lower(env_name) \in VALID_ENVIRONMENTS
             THEN Some(Lower(env_name))
             ELSE None

\* service names of the provider, each with its id
web_eu == <<"w", "e", "b", ".", "e", "u">>
web_us == <<"w", "e", "b", ".", "u", "s">>
dev_dash_web == <<"d", "e", "v", "-", "w", "e", "b">>
qa_dot_web == <<"q", "a", ".", "w", "e", "b">>

ServicePool ==
    { [name |-> web, id |-> "id-web"],
      [name |-> web_eu, id |-> "id-web-eu"],
      [name |-> web_us, id |-> "id-web-us"],
      [name |-> dev_web, id |-> "id-dev-web"],
      [name |-> dev_dash_web, id |-> "id-dev-dash-web"],
      [name |-> qa_dot_web, id |-> "id-qa-dot-web"],
      [name |-> qa_web, id |-> "id-qa-web"] }

\* the directories list_services can return: every name at most once
OrderedDirectories ==
    UNION { { d \in [1..n -> ServicePool] :
                \A i, j \in 1..n : d[i].name = d[j].name => i = j }
            : n \in 0..MaxServices }

Keys(d) == [i \in 1..Len(d) |-> d[i].name]

NotDevNorQa(item) ==
    /\ ~StartsWith(item.name, <<"d", "e", "v", ".">>)
    /\ ~StartsWith(item.name, <<"q", "a", ".">>)

filter_services_by_environment_DotOnly(environment, services) ==
    IF environment = production
      THEN SelectSeq(services, NotDevNorQa)
      ELSE SelectSeq(services,
                     LAMBDA item : StartsWith(item.name, environment \o <<".">>))

filter_services_by_environment(environment, services) ==
    IF environment = production
      THEN SelectSeq(services, NotDevNorQa)
      ELSE SelectSeq(services,
                     LAMBDA item :
                       \/ StartsWith(item.name, environment \o <<".">>)
                       \/ StartsWith(item.name, environment \o <<"-">>))

\* fuzz.WRatio(service_name, choice) is a score of the library; the scores
\* of the choices are an input, one for each choice in order
ScoreValues == {40, 90}
ScoreTables(choices) == [1..Len(choices) -> ScoreValues]

\* process.extract keeps the limit best choices (its default limit)
ExtractLimit == 5

\* position of choice i once the choices are sorted by score, best first,
\* choices of equal score in their order (heapq.nlargest)
Rank(scores, i) ==
    1 + Cardinality({ j \in DOMAIN scores :
                        \/ scores[j] > scores[i]
                        \/ scores[j] = scores[i] /\ j < i })

\* process.extract(service_name, choices, scorer=fuzz.WRatio)
extract(choices, scores) ==
    LET n == IF Len(choices) < ExtractLimit THEN Len(choices) ELSE ExtractLimit
        at(r) == CHOOSE i \in DOMAIN scores : Rank(scores, i) = r
    IN  [r \in 1..n |-> [choice |-> choices[at(r)], score |-> scores[at(r)]]]

\* max(results, key=lambda x: x[1]): the first result of the best score
BestOf_Last(results) ==
    results[CHOOSE i \in DOMAIN results :
              \A j \in DOMAIN results :
                /\ results[j].score <= results[i].score
                /\ results[j].score = results[i].score => j <= i]

BestOf(results) ==
    results[CHOOSE i \in DOMAIN results :
              \A j \in DOMAIN results :
                /\ results[j].score <= results[i].score
                /\ results[j].score = results[i].score => i <= j]

\* the keys the structural step of the production environment accepts
Structural(service_name, keys) ==
    { i \in DOMAIN keys : StartsWith(keys[i], service_name \o <<".">>) }

FirstOf(positions) == CHOOSE i \in positions : \A j \in positions : i <= j

get_best_match_AnyEnvironment(service_name, filtered_services, environment, scores) ==
    LET keys == Keys(filtered_services)
        hits == Structural(service_name, keys)
        results == extract(keys, scores)
    IN  IF hits # {}
          THEN Some(keys[FirstOf(hits)])
          ELSE IF results = <<>>
                 THEN Raised("ValueError")
                 ELSE Some(BestOf(results).choice)

get_best_match(service_name, filtered_services, environment, scores) ==
    LET keys == Keys(filtered_services)
        hits == Structural(service_name, keys)
        results == extract(keys, scores)
    IN  IF environment = production /\ hits # {}
          THEN Some(keys[FirstOf(hits)])
          ELSE IF results = <<>>
                 THEN Raised("ValueError")
                 ELSE Some(BestOf(results).choice)

\* services[best_match]
Lookup(services, key) ==
    IF \E i \in DOMAIN services : services[i].name = key
      THEN Some((CHOOSE item \in { services[i] : i \in DOMAIN services } :
                   item.name = key).id)
      ELSE Raised("KeyError")

\* the --service_name argument
ServiceNameInputs == {web, dev}

\* main resolves a name: it filters the directory, picks the best match
\* and looks its id up
Resolve ==
    /\ resolve.op = "none"
    /\ \E environment \in VALID_ENVIRONMENTS,
          service_name \in ServiceNameInputs,
          services \in OrderedDirectories :
         \E filtered_services \in
              {filter_services_by_environment(environment, services)} :
           \E scores \in ScoreTables(filtered_services) :
             \E best_match \in {get_best_match(service_name, filtered_services,
                                               environment, scores)} :
               resolve' =
                 [op |-> "resolve",
                  environment |-> environment,
                  service_name |-> service_name,
                  services |-> services,
                  filtered_services |-> filtered_services,
                  scores |-> scores,
                  best_match |-> best_match,
                  service_id |-> IF IsRaised(best_match)
                                   THEN None
                                   ELSE Lookup(services, best_match.some)]
    /\ UNCHANGED <<run, streamVars, dirVars>>

InitResolve == StreamIdle /\ DirIdle /\ MainIdle

NextResolve == Resolve

SpecResolve == InitResolve /\ [][NextResolve]_vars

(***************************************************************************)
(* main: the environment is validated, the directory listed, the name      *)
(* resolved and the stream started.                                        *)
(***************************************************************************)
\* the stream main asks for waits DEFAULT_WAIT_INTERVAL between polls
DEFAULT_WAIT_INTERVAL == 1

\* dict assignment keeps the place of a key that is already there
PutItem(d, item) ==
    IF \E i \in DOMAIN d : d[i].name = item.name
      THEN [i \in DOMAIN d |-> IF d[i].name = item.name THEN item ELSE d[i]]
      ELSE Append(d, item)

RECURSIVE PutItems(_, _)
PutItems(d, services) ==
    IF services = <<>> THEN d
    ELSE PutItems(PutItem(d, Head(services)), Tail(services))

\* the directory list_services returns after a fetch, in insertion order:
\* the services of the pages that were answered, page after page
RECURSIVE InOrder(_, _)
InOrder(d, responses) ==
    IF responses = <<>> THEN d
    ELSE IF "error" \in DOMAIN Head(responses)
           THEN d
           ELSE InOrder(PutItems(d, Head(responses).services), Tail(responses))

\* lines 376-388, the body of the try statement of main once the directory
\* is there: what the run comes to
Resolution(environment, service_name, services, scores) ==
    LET filtered_services == filter_services_by_environment(environment, services)
        best_match == get_best_match(service_name, filtered_services,
                                     environment, scores)
        service_id == IF IsRaised(best_match)
                        THEN best_match
                        ELSE Lookup(services, best_match.some)
    IN  [candidates |-> Keys(filtered_services),
         best_match |-> best_match,
         service_id |-> service_id]

\* how main leaves the resolution: an exception is caught at line 391 and
\* an empty best match returns at line 383, both before the stream
Outcome_IgnoreError(resolution) == "stream"

Outcome(resolution) ==
    IF IsRaised(resolution.best_match) \/ IsRaised(resolution.service_id)
      THEN "error"
      ELSE IF resolution.best_match.some = <<>>
             THEN "no_match"
             ELSE "stream"

\* main has not run: the cache file is not there yet, the sink is the one
\* of SLACK_CHANNEL_ID, and the stream main asks for is cut from
\* DEFAULT_STREAM_DURATION to one interval
InitMain ==
    /\ pc = "main"
    /\ slack_channel \in {""} \cup SinkChannels
    /\ duration = DEFAULT_WAIT_INTERVAL
    /\ wait_interval = DEFAULT_WAIT_INTERVAL
    /\ now = 0
    /\ end_time = 0
    /\ total_stats = ZeroStats
    /\ previous_stats = ZeroStats
    /\ interval_stats = ZeroStats
    /\ channel = ""
    /\ slack_ts = ""
    /\ polls = 0
    /\ ticks = 0
    /\ interval_sum = ZeroStats
    /\ last_tick = [available |-> TRUE, total_before |-> ZeroStats,
                    previous_before |-> ZeroStats, interval_before |-> ZeroStats]
    /\ sink = [opens |-> 0, updates |-> 0, finals |-> 0, last |-> NoCall]
    /\ ref = [pc |-> "start", polls |-> 0, total_stats |-> ZeroStats]
    /\ DirIdle
    /\ MainIdle

\* lines 362-392, up to the call of stream_real_time_data, which Start,
\* PollData, PollUnavailable and LoopExit carry out
Main ==
    /\ pc = "main"
    /\ \E env_name \in EnvironmentInputs, service_name \in ServiceNameInputs :
       \E environment \in {get_environment(env_name)} :
         IF IsNone(environment)
         THEN /\ run' = [outcome |-> "invalid_environment", env_name |-> env_name,
                         environment |-> environment, fetches |-> 0]
              /\ pc' = "exit"
              /\ UNCHANGED cache_file
         ELSE \E listing \in Listings, io \in WriteOutcomes :
              \E failAt \in 0..Len(listing) + 1 :
              \E r \in {list_services(cache_file, utc_hours, listing, failAt, io)} :
              \E services \in {InOrder(<<>>, r.responses)} :
                /\ cache_file' = r.file
                /\ IF services = <<>>
                   THEN /\ run' = [outcome |-> "no_services", env_name |-> env_name,
                                   environment |-> environment,
                                   fetches |-> Len(r.requests)]
                        /\ pc' = "exit"
                   ELSE \E scores \in ScoreTables(
                               filter_services_by_environment(environment.some,
                                                              services)) :
                        \E resolution \in {Resolution(environment.some, service_name,
                                                      services, scores)} :
                          /\ run' = [outcome |-> Outcome(resolution),
                                     env_name |-> env_name,
                                     environment |-> environment,
                                     fetches |-> Len(r.requests),
                                     candidates |-> resolution.candidates,
                                     best_match |-> resolution.best_match,
                                     service_id |-> resolution.service_id]
                          /\ pc' = IF Outcome(resolution) = "stream"
                                     THEN "start" ELSE "exit"
    /\ UNCHANGED <<slack_channel, duration, wait_interval, now, end_time,
                   total_stats, previous_stats, interval_stats, channel, slack_ts,
                   polls, ticks, interval_sum, last_tick, sink, ref,
                   utc_hours, call, resolve>>

NextMain == Main \/ Start \/ PollData \/ PollUnavailable \/ LoopExit

SpecMain == InitMain /\ [][NextMain]_vars

Init == StreamInit /\ DirIdle /\ MainIdle

Next == Start \/ PollData \/ PollUnavailable \/ LoopExit

Spec == Init /\ [][Next]_vars

\* the stream is not held up: time.sleep and the calls return
SpecLive == Spec /\ WF_vars(Next)

\* the streams that poll twice at most
InitTicks ==
    /\ Init
    /\ duration = MaxDuration
    /\ wait_interval = MaxWait

SpecTicks == InitTicks /\ [][Next]_vars

(***************************************************************************)
(* Properties of the interval aggregator, checked under Spec.              *)
(***************************************************************************)
Ended == pc \in {"completed", "failed"}

\* C1: in every reachable state of a stream, and so when it ends Completed
\* or Failed, the running total of every tracked field equals the sum of
\* the interval snapshots of the ticks processed so far.
C1_TotalIsSumOfIntervals ==
    \A field \in COMMON_FIELDS : total_stats[field] = interval_sum[field]

C1_Witness ==
    /\ Ended
    /\ ticks >= 2
    /\ interval_stats["requests"] > 0
    /\ total_stats["requests"] > interval_stats["requests"]

\* C2: a stream that opened a sink session ends, Completed or Failed, with
\* exactly one final update, which is the last call made to the sink; no
\* final update is sent while the stream runs.
C2_OneFinalUpdateLast ==
    slack_ts # "" =>
        IF Ended
        THEN sink.finals = 1 /\ sink.last.kind = "final"
        ELSE sink.finals = 0

C2_Witness ==
    /\ pc = "failed"
    /\ slack_ts # ""
    /\ sink.updates >= 1
    /\ sink.finals = 1
    /\ sink.last.kind = "final"

\* C3: once a poll has yielded an unavailable sample the stream is Failed,
\* no poll is enabled any more whatever budget remains, and the running
\* total and the previous-interval snapshot are what they were before that
\* poll.
C3_UnavailableSampleFails ==
    (polls >= 1 /\ ~last_tick.available) =>
        /\ pc = "failed"
        /\ ~ENABLED PollData
        /\ ~ENABLED PollUnavailable
        /\ total_stats = last_tick.total_before
        /\ previous_stats = last_tick.previous_before

C3_Witness ==
    /\ pc = "failed"
    /\ ~last_tick.available
    /\ ticks >= 1
    /\ now < end_time
    /\ total_stats["requests"] > 0
    /\ previous_stats["requests"] > 0

\* C4 (as claimed): with a sink configured the stream is where the stream
\* with every sink delivery succeeding is: same position, same number of
\* polls, same running totals.
C4_SinkFailureNeverInterrupts ==
    slack_channel # "" =>
        /\ pc = ref.pc
        /\ polls = ref.polls
        /\ total_stats = ref.total_stats

\* C5 (as claimed): the value the final update carries for each field is
\* the running total of that field.
C5_FinalUpdateCarriesTotals ==
    sink.last.kind = "final" =>
        \A field \in COMMON_FIELDS :
            sink.last.blocks.sections[field].value = format_value(total_stats[field])

\* the marker the claim asks for: up, down, none
DeltaMarker(value, before) ==
    CASE value > before -> "arrow_up"
      [] value < before -> "small_red_triangle_down"
      [] value = before -> ""

\* C6: with a sink, the update of tick k carries for each tracked field the
\* marker of that field's interval value at tick k against its interval
\* value at tick k-1 (zero before the first tick), and after it the
\* previous-interval snapshot is the interval snapshot of tick k.
C6_DeltaAgainstPreviousTick ==
    (slack_channel # "" /\ sink.last.kind = "update") =>
        /\ DOMAIN sink.last.blocks.sections = COMMON_FIELDS
        /\ \A field \in COMMON_FIELDS :
              sink.last.blocks.sections[field].emoji =
                  DeltaMarker(interval_stats[field], last_tick.interval_before[field])
        /\ previous_stats = interval_stats

C6_Witness ==
    /\ sink.last.kind = "update"
    /\ ticks >= 2
    /\ last_tick.interval_before["requests"] > interval_stats["requests"]
    /\ sink.last.blocks.sections["requests"].emoji = "small_red_triangle_down"
    /\ sink.last.blocks.sections["status_5xx"].emoji = "arrow_up"
    /\ sink.last.blocks.sections["all_pass_requests"].emoji = ""

\* C7: no step of a stream decreases the running total of any tracked
\* field.
C7_TotalNeverDecreases ==
    [][\A field \in COMMON_FIELDS : total_stats'[field] >= total_stats[field]]_vars

\* a tick that adds nothing follows ticks that added something
C7_Witness ==
    /\ ticks >= 2
    /\ total_stats["requests"] > 0
    /\ interval_stats = ZeroStats
    /\ total_stats = last_tick.total_before

(***************************************************************************)
(* Properties of the directory cache and the service listing, checked      *)
(* under SpecDir.                                                          *)
(***************************************************************************)

\* C8 (as claimed): a call of list_services that finds a well-formed cache
\* entry younger than CACHE_EXPIRY_HOURS returns the directory stored in
\* it, whatever that directory is, sends no request to the provider and
\* leaves the cache file as it is.
C8_FreshCacheIsServed ==
    [][(/\ ListServices
        /\ cache_file.kind = "entry"
        /\ utc_hours - cache_file.timestamp < CACHE_EXPIRY_HOURS)
         => /\ call'.returned = cache_file.data
            /\ call'.requests = <<>>
            /\ cache_file' = cache_file]_vars

\* the services of the first n responses, in the order received
RECURSIVE ServicesOf(_, _)
ServicesOf(responses, n) ==
    IF n = 0 THEN <<>>
    ELSE ServicesOf(responses, n - 1) \o responses[n].services

\* the name-to-id pairs of a sequence of services, a later pair replacing
\* an earlier one of the same name
PairsOf(services) ==
    [name \in {services[i].name : i \in DOMAIN services} |->
        services[CHOOSE i \in DOMAIN services :
                    /\ services[i].name = name
                    /\ \A j \in DOMAIN services : services[j].name = name => j <= i].id]

\* C9: a call of list_services that misses the cache requests the pages
\* 1, 2, 3, ... in order; every page before the last request is non-empty
\* and the last request either fails or yields the empty page; nothing is
\* raised; what is returned is exactly the pairs of the pages before the
\* last request; save_cache is called with that mapping, and the cache file
\* holds it once the write succeeds.
C9_FetchStopsAndCachesWhatItHas ==
    (call.op = "list_services" /\ call.requests # <<>>) =>
        LET k == Len(call.requests) IN
        /\ ~call.raised
        /\ Len(call.responses) = k
        /\ \A i \in 1..k : call.requests[i] = i
        /\ \A i \in 1..(k - 1) :
              /\ "services" \in DOMAIN call.responses[i]
              /\ call.responses[i].services # <<>>
        /\ \/ "error" \in DOMAIN call.responses[k]
           \/ call.responses[k] = [services |-> <<>>]
        /\ call.returned = PairsOf(ServicesOf(call.responses, k - 1))
        /\ ~IsNone(call.saved)
        /\ call.saved.some.data = call.returned
        /\ call.saved.some.io = "ok" =>
              cache_file = [kind |-> "entry", timestamp |-> call.at,
                            data |-> call.returned]

C9_Witness ==
    /\ call.op = "list_services"
    /\ Len(call.requests) = 2
    /\ "error" \in DOMAIN call.responses[2]
    /\ DOMAIN call.returned = {web, dev_web}
    /\ cache_file.kind = "entry"
    /\ cache_file.timestamp = call.at
    /\ cache_file.data = call.returned

\* the cache file holds nothing load_cache may return at the given hour: it
\* is missing, malformed, or its timestamp is older than CACHE_EXPIRY_HOURS
Absent(file, hours) ==
    \/ file.kind \in {"missing", "unparsable", "bad_timestamp", "no_data"}
    \/ file.kind = "entry" /\ hours - file.timestamp > CACHE_EXPIRY_HOURS

\* C10: load_cache raises nothing, and returns None for a missing file, a
\* malformed file and an entry older than CACHE_EXPIRY_HOURS.
C10_LoadCacheAbsentIsNone ==
    call.op = "load_cache" =>
        /\ ~IsRaised(call.returned)
        /\ Absent(cache_file, call.at) => IsNone(call.returned)

C10_Witness ==
    /\ call.op = "load_cache"
    /\ cache_file.kind = "entry"
    /\ DOMAIN cache_file.data # {}
    /\ call.at - cache_file.timestamp > CACHE_EXPIRY_HOURS
    /\ IsNone(call.returned)

(***************************************************************************)
(* Properties of the environment filter and of the name resolver, checked  *)
(* under SpecResolve.                                                      *)
(***************************************************************************)
Resolved == resolve.op = "resolve"

\* the name begins with the characters, compared one by one
HasPrefix(name, chars) ==
    /\ Len(name) >= Len(chars)
    /\ \A i \in 1..Len(chars) : name[i] = chars[i]

Items(d) == { d[i] : i \in DOMAIN d }
Names(d) == { d[i].name : i \in DOMAIN d }

\* C11: the filtered directory is a sub-mapping of the directory; for
\* production its keys are exactly the keys that start with neither 'dev.'
\* nor 'qa.', for dev and qa exactly the keys that start with the
\* environment followed by '.' or by '-'.
C11_FilterIsSubMapping ==
    Resolved =>
      LET e == resolve.environment
          D == resolve.services
          F == resolve.filtered_services
      IN  /\ Items(F) \subseteq Items(D)
          /\ Cardinality(Names(F)) = Len(F)
          /\ e = production =>
               Names(F) = { n \in Names(D) :
                              /\ ~HasPrefix(n, <<"d", "e", "v", ".">>)
                              /\ ~HasPrefix(n, <<"q", "a", ".">>) }
          /\ e # production =>
               Names(F) = { n \in Names(D) :
                              \/ HasPrefix(n, Append(e, "."))
                              \/ HasPrefix(n, Append(e, "-")) }

C11_Witness ==
    /\ Resolved
    /\ resolve.environment = dev
    /\ Names(resolve.services) = {web, dev_dash_web}
    /\ Names(resolve.filtered_services) = {dev_dash_web}

\* positions of the keys that begin with the input name followed by '.'
StructuralHits ==
    { i \in DOMAIN resolve.filtered_services :
        HasPrefix(resolve.filtered_services[i].name,
                  Append(resolve.service_name, ".")) }

\* position i has the highest score and every earlier position a lower one
FuzzyBest(i) ==
    /\ \A j \in DOMAIN resolve.scores : resolve.scores[j] <= resolve.scores[i]
    /\ \A j \in 1..(i - 1) : resolve.scores[j] < resolve.scores[i]

\* C12: in production, when a filtered key begins with the input name
\* followed by '.', the first such key in insertion order is returned,
\* whatever the scores; for dev and qa the structural step is not applied:
\* the result is the candidate the scores select even when such a key exists.
C12_StructuralMatchFirst ==
    Resolved =>
      /\ (resolve.environment = production /\ StructuralHits # {}) =>
           \E i \in StructuralHits :
             /\ \A j \in StructuralHits : i <= j
             /\ resolve.best_match = Some(resolve.filtered_services[i].name)
      /\ (resolve.environment # production /\ StructuralHits # {}) =>
           \E i \in DOMAIN resolve.filtered_services :
             /\ FuzzyBest(i)
             /\ resolve.best_match = Some(resolve.filtered_services[i].name)

C12_Witness ==
    /\ Resolved
    /\ resolve.environment = production
    /\ resolve.service_name = web
    /\ Keys(resolve.filtered_services) = <<web, web_us>>
    /\ resolve.scores = <<90, 40>>
    /\ resolve.best_match = Some(web_us)

\* C16: when no production structural match applies and the filtered
\* directory is not empty, the result is a key of the filtered directory,
\* the one of the highest score and, among equal highest scores, the first
\* in insertion order, however low the score; the lookup of its id in the
\* directory succeeds.
C16_FuzzyBestIsAKey ==
    (/\ Resolved
     /\ ~(resolve.environment = production /\ StructuralHits # {})
     /\ resolve.filtered_services # <<>>) =>
      \E i \in DOMAIN resolve.filtered_services :
        /\ FuzzyBest(i)
        /\ resolve.best_match = Some(resolve.filtered_services[i].name)
        /\ resolve.service_id = Some(resolve.filtered_services[i].id)
        /\ resolve.filtered_services[i] \in Items(resolve.services)

C16_Witness ==
    /\ Resolved
    /\ resolve.environment = production
    /\ resolve.service_name = dev
    /\ Keys(resolve.filtered_services) = <<dev_dash_web, web>>
    /\ resolve.scores = <<40, 40>>
    /\ resolve.best_match = Some(dev_dash_web)
    /\ resolve.service_id = Some("id-dev-dash-web")

\* C19: each service name of the directory belongs to the filtered subset
\* of at most one of the environments production, dev, qa.
C19_FilterPartitions ==
    Resolved =>
      \A n \in Names(resolve.filtered_services) :
        \A e \in VALID_ENVIRONMENTS \ {resolve.environment} :
          n \notin Names(filter_services_by_environment(e, resolve.services))

(***************************************************************************)
(* Properties of main, checked under SpecMain.                             *)
(***************************************************************************)
\* nothing was asked of the provider's real-time endpoint or of the sink
NoStream ==
    /\ pc = "exit"
    /\ polls = 0
    /\ sink = [opens |-> 0, updates |-> 0, finals |-> 0, last |-> NoCall]

\* C13: when the environment-filtered directory is empty the resolver fails
\* with the no-match error, and main ends without streaming: no real-time
\* poll is requested and no sink session is opened.
C13_EmptyFilterEndsWithoutStream ==
    ("candidates" \in DOMAIN run /\ run.candidates = <<>>) =>
      /\ run.best_match = Raised("ValueError")
      /\ run.outcome = "error"
      /\ NoStream

C13_Witness ==
    /\ run.outcome = "error"
    /\ run.environment = Some(dev)
    /\ run.candidates = <<>>
    /\ run.fetches = 2
    /\ NoStream

\* the same under SpecResolve, where the production filter can be empty too
ResolveEmptyRaises ==
    (Resolved /\ resolve.filtered_services = <<>>) =>
      resolve.best_match = Raised("ValueError")

\* the two strings are equal up to the case of their letters
SameLetter(a, b) ==
    \/ a = b
    \/ <<a, b>> \in { <<"P", "p">>, <<"D", "d">>, <<"E", "e">>, <<"V", "v">>,
                      <<"Q", "q">>, <<"A", "a">> }

EqualIgnoringCase(s, t) ==
    /\ Len(s) = Len(t)
    /\ \A i \in 1..Len(s) : SameLetter(s[i], t[i])

\* C14: an environment input that is empty or is not, whatever the case of
\* its letters, one of production, dev, qa ends main before any network
\* access: no directory fetch, no real-time poll, no sink call; a valid
\* input in any letter case becomes the lowercase name and the directory is
\* asked for.
C14_InvalidEnvironmentEndsBeforeNetwork ==
    run.outcome # "none" =>
      /\ (\A e \in {production, dev, qa} : ~EqualIgnoringCase(run.env_name, e)) =>
           /\ run.outcome = "invalid_environment"
           /\ run.fetches = 0
           /\ cache_file = [kind |-> "missing"]
           /\ NoStream
      /\ \A e \in {production, dev, qa} :
           EqualIgnoringCase(run.env_name, e) =>
             /\ run.environment = Some(e)
             /\ run.outcome # "invalid_environment"
             /\ run.fetches >= 1

C14_Witness ==
    /\ run.outcome = "invalid_environment"
    /\ run.env_name = <<"p", "r", "o", "d">>
    /\ run.fetches = 0
    /\ NoStream

(***************************************************************************)
(* The round trip of the directory cache, checked under SpecDir.           *)
(***************************************************************************)
\* a call of load_cache that comes right after a call of save_cache, hours
\* apart at most, and before the entry expires
LoadAfterSave ==
    /\ call.op = "load_cache"
    /\ call.since.op = "save_cache"
    /\ call.at - call.since.at < CACHE_EXPIRY_HOURS

RECURSIVE FieldSum(_, _, _)
FieldSum(sample, field, n) ==
    IF n = 0 THEN 0
    ELSE FieldSum(sample, field, n - 1)
         + (IF field \in DOMAIN sample[n] THEN sample[n][field] ELSE 0)

\* the step is a tick whose poll was answered with the sample
SampleTick(sample) ==
    \/ PollDataOn([Data |-> sample])
    \/ PollUnavailableOn([Data |-> sample])

\* the tick leaves the sums of the sample alone in the interval snapshot,
\* has added them to the running total and stays in the loop
Summed(sample) ==
    /\ interval_stats' =
         [field \in COMMON_FIELDS |-> FieldSum(sample, field, Len(sample))]
    /\ total_stats' =
         [field \in COMMON_FIELDS |->
            total_stats[field] + FieldSum(sample, field, Len(sample))]
    /\ pc' = "polling"

\* C17 as stated: for every sample the provider returns successfully, the
\* interval snapshot of the tick is, field by field, the sum over the
\* sample's data points, counted from zero; the tick adds it to the running
\* total and the loop stays in Polling.
C17_EverySampleIsSummed ==
    [][\A sample \in Samples : SampleTick(sample) => Summed(sample)]_vars

\* C17, amended: that holds for every sample of at least one data point; a
\* sample of no data point ends the stream as Failed and leaves the
\* snapshots as they were.
C17_NonEmptySampleIsSummed ==
    [][\A sample \in Samples :
         SampleTick(sample) =>
           IF sample # <<>>
             THEN Summed(sample)
             ELSE /\ pc' = "failed"
                  /\ UNCHANGED <<total_stats, interval_stats, previous_stats>>]_vars

\* the second tick of a stream: its sample was one point of one request and
\* one 5xx, the tick before counted hits
C17_Witness ==
    /\ pc = "polling"
    /\ ticks = 2
    /\ last_tick.available
    /\ last_tick.interval_before["hits"] > 0
    /\ interval_stats = [ZeroStats EXCEPT !["requests"] = 1, !["status_5xx"] = 1]
    /\ total_stats["requests"] = last_tick.total_before["requests"] + 1
    /\ total_stats["hits"] = last_tick.total_before["hits"]

(***************************************************************************)
(* Termination of the stream, checked under SpecLive.                      *)
(***************************************************************************)
\* C18: every stream ends Completed or Failed; no tick starts once the time
\* is at or past the start plus the duration, so the polls are at most the
\* duration divided by the wait interval, rounded up.
C18_StreamEndsWithinBudget ==
    /\ <>Ended
    /\ [](polls * wait_interval < duration + wait_interval)
    /\ [][polls' # polls => now < end_time]_vars

\* what holds of every stream: it ends Completed or Failed unless the open
\* of the sink was refused, and within the bound on the polls
StreamEndsOrRaises ==
    /\ <>(Ended \/ pc = "raised")
    /\ [](polls * wait_interval < duration + wait_interval)
    /\ [][polls' # polls => now < end_time]_vars

(***************************************************************************)
(* The session of the sink, checked under Spec.                            *)
(***************************************************************************)
\* C20: with a sink, every update, per tick and final, is made on the
\* channel and the message timestamp the initial open returned.
C20_UpdatesTargetOpenedSession ==
    sink.last.kind \in {"update", "final"} =>
      /\ sink.last.channel = channel
      /\ sink.last.ts = slack_ts

\* what holds: the updates of the ticks are made on the session the open
\* returned, the final one on the configured channel
UpdatesTarget ==
    /\ sink.last.kind = "update" =>
         sink.last.channel = channel /\ sink.last.ts = slack_ts
    /\ sink.last.kind = "final" =>
         sink.last.channel = slack_channel /\ sink.last.ts = slack_ts

====
